---------------------------- MODULE Spec2Model ----------------------------
(***************************************************************************)
(* Model of SpotifyReleaseMonitor (src/neumusic_spotify_specific.py): the  *)
(* persisted tracking state, the subject-list refresh, the initial scan    *)
(* and the poll pass, together with the environment they run in (clock,    *)
(* catalog listing, failures of the catalog, the state file and the mail   *)
(* transport, interrupts and process crashes).                             *)
(* The second program, AlbumReleaseEmailer (src/neumusic_friday_specific   *)
(* .py), is modelled after it: the three scrape functions, collect_albums, *)
(* deduplicate_albums and run_once.  The two programs share no state; each *)
(* has its own specification and leaves the other's variables alone.       *)
(* A scrape function, deduplicate_albums, search_spotify_album and         *)
(* get_artist_releases are also run on their own, on any input within the  *)
(* bounds (ExtractSpec, DedupSpec, SearchSpec, ListSpec).                  *)
(*                                                                         *)
(* Time is counted in ticks; a calendar day has TicksPerDay ticks.         *)
(* Timestamps taken with datetime.now(timezone.utc) are the tick `now`;   *)
(* the naive datetime.now() of line 235 is local time, `now + tz`.         *)
(* An ISO string written by isoformat() is the pair <<day, tick of day>>,  *)
(* a '%Y-%m-%d' release date is the day number, Python's None is <<>>.     *)
(***************************************************************************)
EXTENDS Integers, Sequences, FiniteSets, TLC

\* ---------------------------------------------------------------- bounds
MaxTime == 4            \* last tick of the modelled clock
MaxTokens == 4          \* longest page handed to a scrape function on its own
MaxRows == 3            \* longest page a source serves in a run of the emailer
MaxAlbums == 3          \* most albums handed to deduplicate_albums on its own
MaxHits == 3            \* longest answer to a search of search_spotify_album
MaxListing == 3         \* longest listing handed to get_artist_releases on its own

\* ------------------------------------------------------------- universes
TicksPerDay == 2
StartTime == 2
TzOffsets == {0, 1}
PassesPerRefresh == 10
ArtistIds == {"a1", "a2"}
Discoverable == {<<"a1", "n1">>, <<"a1", "n2">>, <<"a2", "n1">>}
AlbumIds == {"r1", "r2", "r3"}

\* The albums the catalog may come to list for an artist, in listing order.
CatalogOrder(a) == IF a = "a1" THEN <<"r2", "r3">> ELSE <<"r1">>

NoResults == [precise |-> <<>>, broad |-> <<>>]
None == <<>>
DatetimeMin == -1

\* What the catalog returns for one album of a listing page.
Album(r) ==
    CASE r = "r1" -> [id |-> r, name |-> "x1", release_date |-> 1,
                      release_date_precision |-> "day"]
      [] r = "r2" -> [id |-> r, name |-> "x2", release_date |-> 2,
                      release_date_precision |-> "day"]
      [] OTHER    -> [id |-> r, name |-> "x3", release_date |-> 1,
                      release_date_precision |-> "year"]

VARIABLES
    now,              \* UTC clock
    tz,               \* offset of local time from UTC, fixed per run
    catalog,          \* per artist, the albums its catalog listing shows
    data,             \* self.data
    file,             \* spotify_monitor_data.json
    pc,               \* position of the process in run_monitor
    loop_num,         \* loop variable of run_monitor
    scan_idx,         \* position of run_initial_scan in data["artists"]
    current_time,     \* check_for_new_releases: current_time
    sorted_artists,   \* check_for_new_releases: ids of sorted_artists
    idx,              \* check_for_new_releases: position in sorted_artists
    releases_to_send, \* check_for_new_releases: releases_to_send_emails_for
    all_artists,      \* update_artist_list: all_artists, a set of pairs
    releases,         \* check_for_new_releases / run_initial_scan: releases
    lastFetch,        \* outcome of the last get_artist_releases call
    artist_albums,    \* get_artist_releases: all_albums, when run on its own
    lastStamp,        \* history: the latest clock reading stored so far
    sentCount,        \* history: per release key, times handed to the mailer
    aborted,          \* history: the split of the last aborted pass
    dropped           \* history: keys collected by passes left before line 256

\* AlbumReleaseEmailer
VARIABLES
    step,             \* position of the emailer in run_continuous
    target_date,      \* get_tomorrow_date: tomorrow's day of the month
    album_items,      \* scrape_*: the items parsed out of the fetched page
    sources_data,     \* collect_albums: sources_data, as far as it is built
    albums,           \* self.albums, in insertion order
    errors,           \* self.errors
    search_results,   \* search_spotify_album: what the two searches answer
    queries           \* search_spotify_album: the searches made, in order

Monitor == <<now, tz, catalog, data, file, pc, loop_num, scan_idx,
             current_time, sorted_artists, idx, releases_to_send, all_artists,
             releases, lastFetch, artist_albums, lastStamp, sentCount, aborted,
             dropped>>
Search == <<search_results, queries>>
Emailer == <<step, target_date, album_items, sources_data, albums, errors,
             search_results, queries>>

vars == <<now, tz, catalog, data, file, pc, loop_num, scan_idx, current_time,
          sorted_artists, idx, releases_to_send, all_artists, releases,
          lastFetch, artist_albums, lastStamp, sentCount, aborted, dropped,
          step, target_date, album_items, sources_data, albums, errors,
          search_results, queries>>

\* ------------------------------------------------------------ conversions
IsoFormat(t) == <<t \div TicksPerDay, t % TicksPerDay>>
FromIso(s) == s[1] * TicksPerDay + s[2]
Strptime(release_date) == release_date * TicksPerDay
Strftime(t) == t \div TicksPerDay
ReleaseKey(artist_id, release_id) == <<artist_id, release_id>>
Keys == ArtistIds \X AlbumIds

\* ------------------------------------------------------------- load/save
NewData == [artists |-> <<>>, known_releases |-> <<>>,
            last_artist_update |-> None]
\* Variant: the ledger is left out of what is written.
JsonDump_NoLedger(d) ==
    [state |-> "ok", doc |-> [d EXCEPT !.known_releases = <<>>]]

\* Lines 53-54: self.data, whole.
JsonDump(d) == [state |-> "ok", doc |-> d]
JsonLoad(f) == f.doc
NoFile == [state |-> "absent", doc |-> NewData]
Truncated == [state |-> "corrupt", doc |-> NewData]

\* load_data: the file's document, or the new structure when it is missing.
LoadData(f) == IF f.state = "absent" THEN NewData ELSE JsonLoad(f)

\* --------------------------------------------------------------- helpers
Range(s) == {s[i] : i \in 1..Len(s)}
Perms(S) == {s \in [1..Cardinality(S) -> S] :
                \A i, j \in 1..Cardinality(S) : i # j => s[i] # s[j]}
ArtistIdsOf(artists) == {artists[i].id : i \in 1..Len(artists)}
IndexOf(artists, a) == CHOOSE i \in 1..Len(artists) : artists[i].id = a
ArtistInfo(artists, a) == artists[IndexOf(artists, a)]
Max(x, y) == IF x >= y THEN x ELSE y
Known(kr, key) == key \in DOMAIN kr
Put(kr, key, entry) ==
    [k \in (DOMAIN kr) \cup {key} |-> IF k = key THEN entry ELSE kr[k]]

\* ---------------------------------------------------- update_artist_list
\* Variant: the entry is assigned whether or not the id is already tracked.
RECURSIVE AddArtists_Overwrite(_, _)
AddArtists_Overwrite(artists, discovered) ==
    IF discovered = <<>> THEN artists
    ELSE LET d == Head(discovered)
             fresh == [id |-> d[1], name |-> d[2], last_check |-> None]
             next == IF d[1] \in ArtistIdsOf(artists)
                     THEN [i \in 1..Len(artists) |->
                              IF artists[i].id = d[1] THEN fresh
                              ELSE artists[i]]
                     ELSE Append(artists, fresh)
         IN AddArtists_Overwrite(next, Tail(discovered))

RECURSIVE AddArtists(_, _)
AddArtists(artists, discovered) ==
    IF discovered = <<>> THEN artists
    ELSE LET d == Head(discovered)
             next == IF d[1] \in ArtistIdsOf(artists) THEN artists
                     ELSE Append(artists, [id |-> d[1], name |-> d[2],
                                           last_check |-> None])
         IN AddArtists(next, Tail(discovered))

\* --------------------------------------------------- get_artist_releases
\* Variant: a release dated at since_date itself is kept.
RECURSIVE FilterReleases_NotStrict(_, _)
FilterReleases_NotStrict(all_albums, since_date) ==
    IF all_albums = <<>> THEN <<>>
    ELSE LET album == Album(Head(all_albums))
             rest == FilterReleases_NotStrict(Tail(all_albums), since_date)
         IN IF album.release_date_precision # "day" THEN rest
            ELSE IF since_date = None
                    \/ Strptime(album.release_date) >= since_date[1]
                 THEN <<[id |-> album.id, name |-> album.name,
                         release_date |-> album.release_date]>> \o rest
                 ELSE rest

\* Lines 171-184.
RECURSIVE FilterReleases(_, _)
FilterReleases(all_albums, since_date) ==
    IF all_albums = <<>> THEN <<>>
    ELSE LET album == Album(Head(all_albums))
             rest == FilterReleases(Tail(all_albums), since_date)
         IN IF album.release_date_precision # "day" THEN rest
            ELSE IF since_date = None
                    \/ Strptime(album.release_date) > since_date[1]
                 THEN <<[id |-> album.id, name |-> album.name,
                         release_date |-> album.release_date]>> \o rest
                 ELSE rest

\* What can happen inside the try of lines 162-184: nothing, a catalog call
\* raises (at = 0, before the loop over all_albums), or the processing of
\* record number `at` raises.
Outcomes(all_albums) ==
    {[kind |-> "ok", at |-> 0]}
        \cup {[kind |-> "error", at |-> k] : k \in 0..Len(all_albums)}

\* `releases` is appended to in place and returned after the except clause:
\* it holds what was appended before the failure.
GetArtistReleases(all_albums, since_date, outcome) ==
    IF outcome.kind = "error"
    THEN FilterReleases(SubSeq(all_albums, 1, outcome.at - 1), since_date)
    ELSE FilterReleases(all_albums, since_date)

\* Variant: the except clause of line 186 is missing.
ListingRaises_Uncaught(outcome) == outcome.kind = "error"

\* Lines 186-187: every exception raised inside the try is caught there, so
\* none reaches check_for_new_releases.
ListingRaises(outcome) == FALSE

\* ------------------------------------------------ check_for_new_releases
\* Variant: a never-checked artist sorts as the latest instead of the earliest.
SortKey_NoneLast(info) ==
    IF info.last_check # None THEN FromIso(info.last_check) ELSE MaxTime + 1

SortKey(info) ==
    IF info.last_check # None THEN FromIso(info.last_check) ELSE DatetimeMin

\* sorted(): stable, ascending by key.
InsertByKey(sorted, x) ==
    LET n == Cardinality({i \in 1..Len(sorted) :
                              SortKey(sorted[i]) <= SortKey(x)})
    IN SubSeq(sorted, 1, n) \o <<x>> \o SubSeq(sorted, n + 1, Len(sorted))

\* Variant: the artists are taken in dictionary order, unsorted.
Sorted_Unsorted(items) == items

RECURSIVE Sorted(_)
Sorted(items) ==
    IF items = <<>> THEN <<>>
    ELSE InsertByKey(Sorted(SubSeq(items, 1, Len(items) - 1)),
                     items[Len(items)])

SinceDate(info) ==
    IF info.last_check # None THEN <<FromIso(info.last_check)>> ELSE None

Entry(artist_id, info, release) ==
    [artist_id |-> artist_id, artist_name |-> info.name,
     name |-> release.name, release_date |-> release.release_date]

\* Variant: the ledger is assigned a new dictionary holding only this entry.
RecordRelease_Reassign(kr, key, entry) == [k \in {key} |-> entry]

RecordRelease(kr, key, entry) == Put(kr, key, entry)

\* Variant: the ledger is not consulted.
IsNewRelease_NoLedger(kr, key, release, localNow) ==
    release.release_date \in {Strftime(localNow),
                              Strftime(localNow - TicksPerDay)}

\* The test of line 235.
IsNewRelease(kr, key, release, localNow) ==
    /\ ~Known(kr, key)
    /\ release.release_date \in {Strftime(localNow),
                                 Strftime(localNow - TicksPerDay)}

\* The loop of lines 231-249: returns the ledger and the artist's payload.
RECURSIVE ProcessReleases(_, _, _, _, _, _)
ProcessReleases(rels, artist_id, info, kr, batch, localNow) ==
    IF rels = <<>> THEN [kr |-> kr, batch |-> batch]
    ELSE LET release == Head(rels)
             key == ReleaseKey(artist_id, release.id)
         IN IF IsNewRelease(kr, key, release, localNow)
            THEN ProcessReleases(Tail(rels), artist_id, info,
                     RecordRelease(kr, key, Entry(artist_id, info, release)),
                     Append(batch, release), localNow)
            ELSE ProcessReleases(Tail(rels), artist_id, info, kr, batch,
                                 localNow)

\* Variant: the stamp is the time of the check, not the start of the pass.
CheckStamp_Now(passStart, clock) == IsoFormat(clock)

\* Line 251: the stamp written after an artist's check.
CheckStamp(passStart, clock) == IsoFormat(passStart)

SetLastCheck(artists, a, stamp) ==
    [i \in 1..Len(artists) |->
        IF artists[i].id = a THEN [artists[i] EXCEPT !.last_check = stamp]
        ELSE artists[i]]

\* Variant: the mailer is invoked whatever the pass found.
ShouldSend_Always(batch) == TRUE

\* Line 255.
ShouldSend(batch) == \E a \in ArtistIds : batch[a] # <<>>

\* ------------------------------------------------------ run_initial_scan
RECURSIVE ScanReleases(_, _, _, _)
ScanReleases(rels, artist_id, info, kr) ==
    IF rels = <<>> THEN kr
    ELSE LET release == Head(rels)
         IN ScanReleases(Tail(rels), artist_id, info,
                Put(kr, ReleaseKey(artist_id, release.id),
                    Entry(artist_id, info, release)))

\* ------------------------------------------------------------ run_monitor
FirstRun(artists) == ~\E i \in 1..Len(artists) : artists[i].last_check # None
NextLoop(n) == (n + 1) % PassesPerRefresh
NoBatch == [a \in ArtistIds |-> <<>>]
NoAbort == [on |-> FALSE, checked |-> {}, partial |-> {}]
InPass == pc \in {"check", "save", "send"}

\* The albums an artist's listing shows, in listing order.
RECURSIVE Visible(_, _)
Visible(order, shown) ==
    IF order = <<>> THEN <<>>
    ELSE IF Head(order) \in shown THEN <<Head(order)>> \o Visible(Tail(order), shown)
         ELSE Visible(Tail(order), shown)
Listing(a) == Visible(CatalogOrder(a), catalog[a])

PassLocals == <<current_time, sorted_artists, idx, releases_to_send, releases,
                lastFetch, artist_albums>>
History == <<lastStamp, sentCount, aborted, dropped>>
Env == <<now, tz, catalog>>

\* The keys of the releases collected in releases_to_send_emails_for.
BatchKeys(batch) ==
    {k \in Keys : \E i \in 1..Len(batch[k[1]]) : batch[k[1]][i].id = k[2]}

\* The history of the releases that were collected by a pass left before the
\* dispatch of line 256. It is kept by LedgerSpec; the other specifications
\* start with the history off and leave it empty.
NoDrops == [on |-> FALSE, keys |-> {}]
DropsFrom(batch) ==
    IF dropped.on
    THEN [dropped EXCEPT !.keys = @ \cup BatchKeys(batch)]
    ELSE dropped

\* The split of the running pass, recorded when it is aborted after at least
\* one completed check: the artists whose check was completed (saved), and
\* the one whose check was under way.
AbortRecord ==
    IF idx <= 1 THEN NoAbort
    ELSE [on |-> TRUE,
          checked |-> {sorted_artists[i] : i \in 1..(idx - 1)},
          partial |-> IF pc = "save" THEN {sorted_artists[idx]} ELSE {}]

\* The locals of check_for_new_releases and run_initial_scan go out of scope.
ResetLocals ==
    /\ current_time' = 0
    /\ sorted_artists' = <<>>
    /\ idx' = 0
    /\ releases_to_send' = NoBatch
    /\ releases' = <<>>
    /\ lastFetch' = "none"
    /\ artist_albums' = <<>>

\* An exception leaves run_monitor: the process ends and its memory with it.
Exit ==
    /\ pc' = "exited"
    /\ data' = NewData
    /\ loop_num' = 0
    /\ scan_idx' = 0
    /\ all_artists' = {}
    /\ ResetLocals

\* The emailer is not running.
EmailerIdle ==
    /\ step = "idle"
    /\ target_date = 0
    /\ album_items = <<>>
    /\ sources_data = <<>>
    /\ albums = <<>>
    /\ errors = <<>>
    /\ search_results = NoResults
    /\ queries = <<>>

MonitorStart ==
    /\ now = StartTime
    /\ tz \in TzOffsets
    /\ catalog = [a \in ArtistIds |-> {}]
    /\ file = NoFile
    /\ data = LoadData(NoFile)
    /\ pc = "start"
    /\ loop_num = 0
    /\ scan_idx = 0
    /\ current_time = 0
    /\ sorted_artists = <<>>
    /\ idx = 0
    /\ releases_to_send = NoBatch
    /\ all_artists = {}
    /\ releases = <<>>
    /\ lastFetch = "none"
    /\ artist_albums = <<>>
    /\ lastStamp = StartTime - 1
    /\ sentCount = [k \in Keys |-> 0]
    /\ aborted = NoAbort

MonitorInit == MonitorStart /\ dropped = NoDrops

Init == MonitorInit /\ EmailerIdle

\* ------------------------------------------------------------ environment
Tick ==
    /\ now < MaxTime
    /\ now' = now + 1
    /\ UNCHANGED <<tz, catalog, data, file, pc, loop_num, scan_idx,
                   PassLocals, all_artists, History>>
    /\ UNCHANGED Emailer

\* An album appears in an artist's listing.
Publish ==
    \E a \in ArtistIds :
      \E r \in Range(CatalogOrder(a)) \ catalog[a] :
        /\ catalog' = [catalog EXCEPT ![a] = @ \cup {r}]
        /\ UNCHANGED <<now, tz, data, file, pc, loop_num, scan_idx,
                       PassLocals, all_artists, History>>
        /\ UNCHANGED Emailer

\* The process is killed and started again: __init__ runs load_data.  A kill
\* while save_data is writing may leave a truncated file, which load_data
\* cannot parse.
Restart ==
    /\ pc # "dead"
    /\ \/ file' = file
       \/ /\ \/ pc = "save"
             \/ pc = "scan" /\ scan_idx > Len(data.artists)
          /\ file' = Truncated
    /\ IF file'.state = "corrupt"
       THEN pc' = "dead" /\ data' = NewData
       ELSE pc' = "start" /\ data' = LoadData(file')
    /\ loop_num' = 0
    /\ scan_idx' = 0
    /\ ResetLocals
    /\ all_artists' = {}
    /\ aborted' = IF InPass THEN AbortRecord ELSE aborted
    /\ UNCHANGED <<Env, lastStamp, sentCount, dropped>>
    /\ UNCHANGED Emailer

\* ------------------------------------------------------------ run_monitor
\* Lines 293-295.
RunMonitor ==
    /\ pc = "start"
    /\ IF FirstRun(data.artists)
       THEN pc' = "scan" /\ scan_idx' = 1
       ELSE pc' = "loop" /\ scan_idx' = 0
    /\ UNCHANGED <<Env, data, file, loop_num, PassLocals, all_artists,
                   History>>
    /\ UNCHANGED Emailer

\* One iteration of the loop of run_initial_scan.
ScanArtist ==
    /\ pc = "scan"
    /\ scan_idx <= Len(data.artists)
    /\ \E outcome \in Outcomes(Listing(data.artists[scan_idx].id)) :
        LET info == data.artists[scan_idx]
            rels == GetArtistReleases(Listing(info.id), None, outcome)
        IN /\ data' = [data EXCEPT
                 !.known_releases = ScanReleases(rels, info.id, info, @),
                 !.artists = SetLastCheck(@, info.id, IsoFormat(now))]
           /\ releases' = rels
           /\ lastFetch' = outcome.kind
    /\ lastStamp' = Max(lastStamp, now)
    /\ scan_idx' = scan_idx + 1
    /\ UNCHANGED <<Env, file, pc, loop_num, current_time, sorted_artists, idx,
                   releases_to_send, all_artists, artist_albums, sentCount,
                   aborted, dropped>>
    /\ UNCHANGED Emailer

\* save_data at the end of run_initial_scan.
ScanSave ==
    /\ pc = "scan"
    /\ scan_idx > Len(data.artists)
    /\ file' = JsonDump(data)
    /\ pc' = "loop"
    /\ scan_idx' = 0
    /\ ResetLocals
    /\ UNCHANGED <<Env, data, loop_num, all_artists, History>>
    /\ UNCHANGED Emailer

\* save_data raises there: nothing in run_monitor catches it.
ScanSaveFail ==
    /\ pc = "scan"
    /\ scan_idx > Len(data.artists)
    /\ file' \in {file, Truncated}
    /\ Exit
    /\ UNCHANGED <<Env, History>>
    /\ UNCHANGED Emailer

\* update_artist_list, run when loop_num % 10 = 0.
UpdateArtistList ==
    /\ pc = "loop"
    /\ loop_num % PassesPerRefresh = 0
    /\ \E found \in SUBSET Discoverable :
         \E order \in Perms(found) :
            /\ all_artists' = found
            /\ data' = [data EXCEPT
                  !.artists = AddArtists(@, order),
                  !.last_artist_update = IsoFormat(now)]
    /\ file' = JsonDump(data')
    /\ pc' = "begin"
    /\ UNCHANGED <<Env, loop_num, scan_idx, PassLocals, History>>
    /\ UNCHANGED Emailer

\* A catalog call or save_data raises inside update_artist_list, which is
\* outside the try of run_monitor.
UpdateFail ==
    /\ pc = "loop"
    /\ loop_num % PassesPerRefresh = 0
    /\ file' \in {file, Truncated}
    /\ Exit
    /\ UNCHANGED <<Env, History>>
    /\ UNCHANGED Emailer

\* Lines 213-218.
BeginPass ==
    /\ \/ pc = "begin"
       \/ pc = "loop" /\ loop_num % PassesPerRefresh # 0
    /\ now > lastStamp
    /\ lastStamp' = now
    /\ current_time' = now
    /\ sorted_artists' = [i \in 1..Len(data.artists) |->
                             Sorted(data.artists)[i].id]
    /\ releases_to_send' = NoBatch
    /\ idx' = 1
    /\ pc' = "check"
    /\ all_artists' = {}
    /\ UNCHANGED <<Env, data, file, loop_num, scan_idx, releases, lastFetch,
                   artist_albums, sentCount, aborted, dropped>>
    /\ UNCHANGED Emailer

\* Lines 220-251 for one artist.  An exception leaving the body of the pass
\* would reach the handler of run_monitor (lines 306-309).
CheckArtist ==
    /\ pc = "check"
    /\ idx <= Len(sorted_artists)
    /\ \E outcome \in Outcomes(Listing(sorted_artists[idx])) :
        LET artist_id == sorted_artists[idx]
            info == ArtistInfo(data.artists, artist_id)
            rels == GetArtistReleases(Listing(artist_id), SinceDate(info),
                                      outcome)
            res == ProcessReleases(rels, artist_id, info,
                       data.known_releases, releases_to_send[artist_id],
                       now + tz)
        IN IF ListingRaises(outcome)
           THEN /\ pc' = "loop"
                /\ loop_num' = NextLoop(loop_num)
                /\ aborted' = AbortRecord
                /\ dropped' = DropsFrom(releases_to_send)
                /\ ResetLocals
                /\ UNCHANGED data
           ELSE /\ data' = [data EXCEPT
                      !.known_releases = res.kr,
                      !.artists = SetLastCheck(@, artist_id,
                                               CheckStamp(current_time, now))]
                /\ releases_to_send' =
                      [releases_to_send EXCEPT ![artist_id] = res.batch]
                /\ releases' = rels
                /\ lastFetch' = outcome.kind
                /\ pc' = "save"
                /\ aborted' = NoAbort
                /\ UNCHANGED <<loop_num, current_time, sorted_artists, idx,
                               artist_albums, dropped>>
    /\ UNCHANGED <<Env, file, scan_idx, all_artists, lastStamp, sentCount>>
    /\ UNCHANGED Emailer

\* Line 254.
SaveAfterCheck ==
    /\ pc = "save"
    /\ file' = JsonDump(data)
    /\ idx' = idx + 1
    /\ pc' = "check"
    /\ releases' = <<>>
    /\ lastFetch' = "none"
    /\ UNCHANGED <<Env, data, loop_num, scan_idx, current_time,
                   sorted_artists, releases_to_send, all_artists, artist_albums,
                   History>>
    /\ UNCHANGED Emailer

\* Variant: the failure of save_data is caught inside the pass.
SaveRaises_Absorbed == FALSE

\* Lines 51-54 and 254: neither save_data nor check_for_new_releases has a
\* handler around the write, so its failure leaves check_for_new_releases.
SaveRaises == TRUE

\* Line 254 raises: run_monitor logs, sleeps and goes on with the for loop.
SaveFail ==
    /\ pc = "save"
    /\ file' \in {file, Truncated}
    /\ IF SaveRaises
       THEN /\ pc' = "loop"
            /\ loop_num' = NextLoop(loop_num)
            /\ aborted' = AbortRecord
            /\ dropped' = DropsFrom(releases_to_send)
            /\ ResetLocals
       ELSE /\ idx' = idx + 1
            /\ pc' = "check"
            /\ releases' = <<>>
            /\ lastFetch' = "none"
            /\ UNCHANGED <<loop_num, current_time, sorted_artists,
                           releases_to_send, artist_albums, aborted, dropped>>
    /\ UNCHANGED <<Env, data, scan_idx, all_artists, lastStamp, sentCount>>
    /\ UNCHANGED Emailer

\* Line 255 after the loop: the pass returns when nothing was found.
EndOfLoop ==
    /\ pc = "check"
    /\ idx > Len(sorted_artists)
    /\ aborted' = NoAbort
    /\ IF ShouldSend(releases_to_send)
       THEN /\ pc' = "send"
            /\ UNCHANGED <<loop_num, PassLocals>>
       ELSE /\ pc' = "loop"
            /\ loop_num' = NextLoop(loop_num)
            /\ ResetLocals
    /\ UNCHANGED <<Env, data, file, scan_idx, all_artists, lastStamp,
                   sentCount, dropped>>
    /\ UNCHANGED Emailer

Occurrences(batch, key) ==
    Cardinality({i \in 1..Len(batch[key[1]]) : batch[key[1]][i].id = key[2]})

\* Line 256: send_email_notification is handed the payload; it returns, or
\* raises and run_monitor logs, sleeps and goes on with the for loop.
SendEmailNotification ==
    /\ pc = "send"
    /\ sentCount' = [k \in Keys |->
                        sentCount[k] + Occurrences(releases_to_send, k)]
    /\ pc' = "loop"
    /\ loop_num' = NextLoop(loop_num)
    /\ ResetLocals
    /\ UNCHANGED <<Env, data, file, scan_idx, all_artists, lastStamp, aborted,
                   dropped>>
    /\ UNCHANGED Emailer

\* KeyboardInterrupt inside check_for_new_releases: break, then the while
\* loop starts the for loop again.
Interrupt ==
    /\ InPass
    /\ pc' = "loop"
    /\ loop_num' = 0
    /\ aborted' = AbortRecord
    /\ dropped' = DropsFrom(releases_to_send)
    /\ ResetLocals
    /\ UNCHANGED <<Env, data, file, scan_idx, all_artists, lastStamp,
                   sentCount>>
    /\ UNCHANGED Emailer

Next ==
    \/ Tick
    \/ Publish
    \/ Restart
    \/ RunMonitor
    \/ ScanArtist
    \/ ScanSave
    \/ ScanSaveFail
    \/ UpdateArtistList
    \/ UpdateFail
    \/ BeginPass
    \/ CheckArtist
    \/ SaveAfterCheck
    \/ SaveFail
    \/ EndOfLoop
    \/ SendEmailNotification
    \/ Interrupt

Spec == Init /\ [][Next]_vars

\* The monitor with the history of the releases of the passes that were left.
LedgerInit ==
    /\ MonitorStart
    /\ dropped = [NoDrops EXCEPT !.on = TRUE]
    /\ EmailerIdle
LedgerSpec == LedgerInit /\ [][Next]_vars

TypeOK ==
    /\ now \in StartTime..MaxTime
    /\ pc \in {"start", "scan", "loop", "begin", "check", "save", "send",
               "exited", "dead"}
    /\ loop_num \in 0..(PassesPerRefresh - 1)
    /\ file.state \in {"absent", "ok", "corrupt"}

\* ====================================================== AlbumReleaseEmailer
\* ------------------------------------------------------------- universes
TargetDays == {2, 12}
WindowDays == 7
TargetMonth == 1
Months == {1, 2}
Sources == {"Metacritic", "Genius", "Wikipedia"}

\* ------------------------------------------------------------------ texts
\* The text of a date is its day of the month and what strftime puts before
\* a one-digit day: nothing, a space ('%e') or a zero ('%d', '%m').  Month and
\* year are the same for every date of a page and are left out.
StrftimeE(d) == [pad |-> IF d < 10 THEN " " ELSE "", day |-> d]
StrftimeD(d) == [pad |-> IF d < 10 THEN "0" ELSE "", day |-> d]
StripDate(t) == IF t.pad = " " THEN [t EXCEPT !.pad = ""] ELSE t
\* .replace('||0', '||').replace('||', '')
DropZero(t) == IF t.pad = "0" THEN [t EXCEPT !.pad = ""] ELSE t
\* How the pages write the date d.
SiteDate(d) == [pad |-> "", day |-> d]

\* get_tomorrow_date, lines 75-77.
MetacriticFormat(d) == StripDate(StrftimeE(d))
GeniusFormat(d) == DropZero(StrftimeD(d))
WikipediaFormat(d) == DropZero(StrftimeD(d))

\* The closing marker each scrape function compares with: the date a week
\* later, formatted at lines 101, 141 and 185.
MetacriticEnd(d) == StrftimeE(d + WindowDays)
GeniusEnd(d) == DropZero(StrftimeD(d + WindowDays))
WikipediaEnd(d) == DropZero(StrftimeD(d + WindowDays))

\* str.strip and str.lower on the names of the universe.
Strip(s) == IF s = "drake " THEN "drake" ELSE s
Lower(s) ==
    CASE s = "Drake" -> "drake"
      [] s = "Dogs"  -> "dogs"
      [] s = "Adele" -> "adele"
      [] OTHER       -> s

\* ------------------------------------------------------------------ pages
\* A table row: the text of its th cell, if any, and the texts of its td cells.
Row(th, td) == [kind |-> "tr", caption |-> 0, th |-> th, td |-> td]
\* The start of a table of the Wikipedia page, with the month of its caption.
Table(m) == [kind |-> "table", caption |-> m, th |-> <<>>, td |-> <<>>]
\* A b or a tag of the Genius page: the text of a b tag is a date, the text of
\* an a tag is given by its ' - '-separated parts.
Tag(name, date, parts) == [name |-> name, date |-> date, parts |-> parts]

MetacriticRows(d) ==
    {Row(<<SiteDate(d)>>, <<>>), Row(<<SiteDate(d + WindowDays)>>, <<>>),
     Row(<<>>, <<"Drake", "Dogs">>), Row(<<>>, <<"Adele", "30">>),
     Row(<<>>, <<"Drake">>)}

GeniusTags(d) ==
    {Tag("b", <<SiteDate(d)>>, <<>>), Tag("b", <<SiteDate(d + WindowDays)>>, <<>>),
     Tag("a", <<>>, <<"Drake", "Dogs", "Lyrics">>),
     Tag("a", <<>>, <<"drake ", "Dogs", "Lyrics">>),
     Tag("a", <<>>, <<"Drake">>)}

WikipediaItems(d) ==
    {Table(m) : m \in Months}
        \cup {Row(th, td) :
                th \in {<<>>, <<SiteDate(d)>>, <<SiteDate(d + WindowDays)>>},
                td \in {<<"Drake", "Dogs">>, <<"Drake">>}}

SeqsUpTo(S, n) == UNION {[1..k -> S] : k \in 0..n}

\* The item sequences of at most n items a source's page can parse to.
Pages(source, d, n) ==
    CASE source = "Metacritic" -> SeqsUpTo(MetacriticRows(d), n)
      [] source = "Genius"     -> SeqsUpTo(GeniusTags(d), n)
      [] OTHER -> {p \in SeqsUpTo(WikipediaItems(d), n) :
                      p = <<>> \/ p[1].kind = "table"}

\* ----------------------------------------------------------------- scrape
\* Variant: the window is open from the first item on.
DateActiveInit_True == TRUE

\* Lines 94, 134 and 179: date_active = False.
DateActiveInit == FALSE

\* scrape_metacritic, lines 95-112.
RECURSIVE MetacriticLoop(_, _, _, _)
MetacriticLoop(items, d, date_active, found_albums) ==
    IF items = <<>> THEN found_albums
    ELSE LET item == Head(items)
             hasTh == item.th # <<>>
             isStart == hasTh /\ StripDate(item.th[1]) = MetacriticFormat(d)
             isEnd == hasTh /\ ~isStart
                        /\ StripDate(item.th[1]) = MetacriticEnd(d)
             active == date_active \/ isStart
         IN IF isEnd THEN found_albums
            ELSE IF active /\ Len(item.td) >= 2
                 THEN MetacriticLoop(Tail(items), d, active,
                         Append(found_albums,
                                <<Strip(item.td[1]), Strip(item.td[2])>>))
                 ELSE MetacriticLoop(Tail(items), d, active, found_albums)

ScrapeMetacritic(items, d) == MetacriticLoop(items, d, DateActiveInit, <<>>)

\* ' - '.join of at most one part (no title of the universe holds ' - ').
Join(parts) == IF parts = <<>> THEN "" ELSE parts[1]

\* scrape_genius, lines 135-152.
RECURSIVE GeniusLoop(_, _, _, _)
GeniusLoop(items, d, date_active, found_albums) ==
    IF items = <<>> THEN found_albums
    ELSE LET item == Head(items)
             album_info == SubSeq(item.parts, 1, Len(item.parts) - 1)
         IN IF item.name = "b"
            THEN IF StripDate(item.date[1]) = GeniusFormat(d)
                 THEN GeniusLoop(Tail(items), d, TRUE, found_albums)
                 ELSE IF StripDate(item.date[1]) = GeniusEnd(d)
                      THEN found_albums
                      ELSE GeniusLoop(Tail(items), d, date_active,
                                      found_albums)
            ELSE IF date_active /\ album_info # <<>>
                 THEN GeniusLoop(Tail(items), d, date_active,
                         Append(found_albums,
                                <<album_info[1], Join(Tail(album_info))>>))
                 ELSE GeniusLoop(Tail(items), d, date_active, found_albums)

ScrapeGenius(items, d) == GeniusLoop(items, d, DateActiveInit, <<>>)

\* scrape_wikipedia, lines 176-197, over the tables of the page laid end to
\* end.  in_table holds while the rows of a table with the right caption are
\* looped over; the break of line 187 and an exception caught at line 196
\* both leave that table.
RECURSIVE WikipediaLoop(_, _, _, _, _)
WikipediaLoop(items, d, in_table, date_active, found_albums) ==
    IF items = <<>> THEN found_albums
    ELSE LET item == Head(items)
             hasTh == item.th # <<>>
             isStart == hasTh /\ StripDate(item.th[1]) = WikipediaFormat(d)
             isEnd == hasTh /\ ~isStart
                        /\ StripDate(item.th[1]) = WikipediaEnd(d)
             active == date_active \/ isStart
         IN IF item.kind = "table"
            THEN WikipediaLoop(Tail(items), d, item.caption = TargetMonth,
                               DateActiveInit, found_albums)
            ELSE IF ~in_table \/ isEnd
                 THEN WikipediaLoop(Tail(items), d, FALSE, date_active,
                                    found_albums)
                 ELSE IF ~active
                      THEN WikipediaLoop(Tail(items), d, TRUE, active,
                                         found_albums)
                      ELSE IF Len(item.td) >= 2
                           THEN WikipediaLoop(Tail(items), d, TRUE, active,
                                   Append(found_albums,
                                          <<Strip(item.td[1]),
                                            Strip(item.td[2])>>))
                           ELSE WikipediaLoop(Tail(items), d, FALSE, active,
                                              found_albums)

ScrapeWikipedia(items, d) == WikipediaLoop(items, d, FALSE, FALSE, <<>>)

Scrape(source, items, d) ==
    CASE source = "Metacritic" -> ScrapeMetacritic(items, d)
      [] source = "Genius"     -> ScrapeGenius(items, d)
      [] OTHER                 -> ScrapeWikipedia(items, d)

\* Variant: a scrape function that found nothing returns its empty list.
Exits_Never(found_albums) == FALSE

\* Lines 113-115, 153-155, 198-200: exit() when nothing was found.  exit()
\* raises SystemExit, which no `except Exception` of the program catches.
Exits(found_albums) == found_albums = <<>>

\* The order of the calls at lines 647-649, then the loop of line 653.
NextStep(source) ==
    CASE source = "Metacritic" -> "Genius"
      [] source = "Genius"     -> "Wikipedia"
      [] OTHER                 -> "merge"

\* --------------------------------------------------------- collect_albums
HasKey(dict, key) == \E i \in 1..Len(dict) : dict[i].key = key
KeyIndex(dict, key) == CHOOSE i \in 1..Len(dict) : dict[i].key = key
DeleteKey(dict, key) == SelectSeq(dict, LAMBDA e : e.key # key)

\* Lines 654-662 for the list of one source.
RECURSIVE AddMentions(_, _, _)
AddMentions(dict, source_name, albums_list) ==
    IF albums_list = <<>> THEN dict
    ELSE LET key == Head(albums_list)
             base == IF HasKey(dict, key) THEN dict
                     ELSE Append(dict, [key |-> key, sources |-> <<>>,
                                        spotify_info |-> None,
                                        artist_info |-> None])
             i == KeyIndex(base, key)
         IN AddMentions([base EXCEPT ![i].sources = Append(@, source_name)],
                        source_name, Tail(albums_list))

\* Lines 653-662.
RECURSIVE MergeSources(_, _)
MergeSources(dict, data_list) ==
    IF data_list = <<>> THEN dict
    ELSE MergeSources(AddMentions(dict, Head(data_list)[1], Head(data_list)[2]),
                      Tail(data_list))

\* ----------------------------------------------------- deduplicate_albums
\* Variant: the key is the spelling itself.
NormKey_Exact(key) == key

\* Line 279.
NormKey(key) == <<Strip(Lower(key[1])), Strip(Lower(key[2]))>>

\* Lines 283-284.
Tracks(spotify_info) == IF spotify_info = None THEN 0 ELSE spotify_info[2]

\* Variant: the better album displaces the remembered one in self.albums but
\* not in seen_combinations.
RECURSIVE DedupLoop_StaleSeen(_, _, _)
DedupLoop_StaleSeen(items, seen, dict) ==
    IF items = <<>> THEN dict
    ELSE LET e == Head(items)
             key == NormKey(e.key)
             mine == [original_key |-> e.key, spotify_info |-> e.spotify_info]
         IN IF Known(seen, key)
            THEN IF Tracks(e.spotify_info) > Tracks(seen[key].spotify_info)
                 THEN DedupLoop_StaleSeen(Tail(items), seen,
                                DeleteKey(dict, seen[key].original_key))
                 ELSE DedupLoop_StaleSeen(Tail(items), seen,
                                          DeleteKey(dict, e.key))
            ELSE DedupLoop_StaleSeen(Tail(items), Put(seen, key, mine), dict)

\* Lines 277-295: items is the snapshot list(self.albums.items()), seen is
\* seen_combinations, dict is self.albums.
RECURSIVE DedupLoop(_, _, _)
DedupLoop(items, seen, dict) ==
    IF items = <<>> THEN dict
    ELSE LET e == Head(items)
             key == NormKey(e.key)
             mine == [original_key |-> e.key, spotify_info |-> e.spotify_info]
         IN IF Known(seen, key)
            THEN IF Tracks(e.spotify_info) > Tracks(seen[key].spotify_info)
                 THEN DedupLoop(Tail(items), Put(seen, key, mine),
                                DeleteKey(dict, seen[key].original_key))
                 ELSE DedupLoop(Tail(items), seen, DeleteKey(dict, e.key))
            ELSE DedupLoop(Tail(items), Put(seen, key, mine), dict)

DeduplicateAlbums(dict) == DedupLoop(dict, <<>>, dict)

\* ---------------------------------------------------------- enrichment
\* An album of a search answer.
Hit(uri, total_tracks, release_date) ==
    [uri |-> uri, total_tracks |-> total_tracks, release_date |-> release_date]

\* What the catalog answers to the two searches for a spelling, on the eve of
\* day d: the precise search (line 214) and the broad one (line 221).
CatalogAlbum(artist, album, d) ==
    CASE artist = "Drake" /\ album = "Dogs" ->
            [precise |-> <<Hit("uri1", 10, StrftimeD(d))>>, broad |-> <<>>]
      [] artist = "drake " /\ album = "Dogs" ->
            [precise |-> <<>>,
             broad |-> <<Hit("uri3", 20, StrftimeD(d + 3)),
                         Hit("uri2", 12, StrftimeD(d - 1))>>]
      [] artist = "Adele" ->
            [precise |-> <<Hit("uri4", 9, StrftimeD(d + 3))>>,
             broad |-> <<Hit("uri5", 9, StrftimeD(d))>>]
      [] OTHER -> NoResults

\* Variant: any release date is accepted.
AcceptedDate_Any(release_date, d) == TRUE

\* Line 228: the release date is target_date['spotify_format'] or the text of
\* the day before.
AcceptedDate(release_date, d) ==
    release_date \in {StrftimeD(d), StrftimeD(d - 1)}

\* Line 231: max(best_albums, key=total_tracks), the first of the greatest.
RECURSIVE MaxByTracks(_, _)
MaxByTracks(best, rest) ==
    IF rest = <<>> THEN best
    ELSE MaxByTracks(IF Head(rest).total_tracks > best.total_tracks
                     THEN Head(rest) ELSE best, Tail(rest))

\* Lines 225-238 on the answer in hand.
BestAlbum(found, d) ==
    LET best_albums == SelectSeq(found, LAMBDA a : AcceptedDate(a.release_date, d))
        best_album == MaxByTracks(Head(best_albums), Tail(best_albums))
    IN IF best_albums = <<>> THEN None
       ELSE <<best_album.uri, best_album.total_tracks>>

\* Variant: the broad search is made whenever the precise answer holds no
\* album of an accepted date.
NeedsBroad_NoneAccepted(found, d) == BestAlbum(found, d) = None

\* Line 219: if not albums.
NeedsBroad(found, d) == found = <<>>

\* A call of self.spotify.search: which query, and whether the call raised.
Query(q, raised) == [q |-> q, raised |-> raised]

\* What can go wrong in one search: nothing, the precise search raises, the
\* broad search raises, building the returned record raises.
SearchOutcomes == {"ok", "error", "broad_error", "result_error"}

\* search_spotify_album on the answers the catalog would give: the record
\* returned (None when nothing is accepted or anything raises, lines 239-243)
\* and the searches made.
SearchSpotifyAlbum(answers, d, outcome) ==
    IF outcome = "error"
    THEN [info |-> None, queries |-> <<Query("precise", TRUE)>>]
    ELSE IF NeedsBroad(answers.precise, d)
         THEN [info |-> IF outcome = "ok" THEN BestAlbum(answers.broad, d)
                        ELSE None,
               queries |-> <<Query("precise", FALSE),
                             Query("broad", outcome = "broad_error")>>]
         ELSE [info |-> IF outcome = "result_error" THEN None
                        ELSE BestAlbum(answers.precise, d),
               queries |-> <<Query("precise", FALSE)>>]

\* Variant: an error of either lookup leaves its function.
LookupRaises_Uncaught(outcome) == "error" \in {outcome[1], outcome[2]}

\* Lines 241-243 and 269-271: both lookups catch every Exception and return.
LookupRaises(outcome) == FALSE

\* get_artist_info: the artist's record, the default record when it raises.
GetArtistInfo(artist, outcome) ==
    IF outcome = "error" THEN <<"Unknown">> ELSE <<"genres", artist>>

\* ------------------------------------------------------------ run_once
\* run_continuous calls run_once; collect_albums clears the previous run.
RunOnce ==
    /\ step = "wait"
    /\ target_date' \in TargetDays
    /\ albums' = <<>>
    /\ errors' = <<>>
    /\ sources_data' = <<>>
    /\ step' = "Metacritic"
    /\ UNCHANGED album_items
    /\ UNCHANGED Search
    /\ UNCHANGED Monitor

\* What a scrape function does with the items of its page: the list is
\* returned into sources_data, or the error is recorded and exit() is called.
Returned(source, found_albums) ==
    /\ errors' = IF found_albums = <<>>
                 THEN Append(errors, <<source, "No albums found">>)
                 ELSE errors
    /\ IF Exits(found_albums)
       THEN step' = "exit" /\ UNCHANGED sources_data
       ELSE /\ step' = NextStep(source)
            /\ sources_data' = Append(sources_data, <<source, found_albums>>)

\* One of the calls of lines 647-649: the page is fetched and scraped.
ScrapeSource ==
    /\ step \in Sources
    /\ \E page \in Pages(step, target_date, MaxRows) :
          Returned(step, Scrape(step, page, target_date))
    /\ UNCHANGED <<target_date, album_items, albums>>
    /\ UNCHANGED Search
    /\ UNCHANGED Monitor

\* The fetch or the parse raises: lines 117-121, 158-162, 202-206.
ScrapeError ==
    /\ step \in Sources
    /\ errors' = Append(errors, <<step, "Error scraping">>)
    /\ step' = "exit"
    /\ UNCHANGED <<target_date, album_items, sources_data, albums>>
    /\ UNCHANGED Search
    /\ UNCHANGED Monitor

\* Lines 653-662.
CollectMentions ==
    /\ step = "merge"
    /\ albums' = MergeSources(albums, sources_data)
    /\ step' = "dedup"
    /\ UNCHANGED <<target_date, album_items, sources_data, errors>>
    /\ UNCHANGED Search
    /\ UNCHANGED Monitor

\* Line 664.
Deduplicate ==
    /\ step = "dedup"
    /\ albums' = DeduplicateAlbums(albums)
    /\ step' = "enrich"
    /\ UNCHANGED <<target_date, album_items, sources_data, errors>>
    /\ UNCHANGED Search
    /\ UNCHANGED Monitor

\* Lines 667-671.  A lookup that raised out of its function would end
\* collect_albums with the albums before it enriched, and run_once with it:
\* run_continuous logs the error and goes on waiting (lines 711-713).
EnrichAlbums ==
    /\ step = "enrich"
    /\ \E outcome \in [1..Len(albums) -> {"ok", "error"} \X {"ok", "error"}] :
          LET raising == {i \in 1..Len(albums) : LookupRaises(outcome[i])}
              done == IF raising = {} THEN Len(albums)
                      ELSE (CHOOSE i \in raising :
                               \A k \in raising : i <= k) - 1
          IN /\ albums' = [i \in 1..Len(albums) |->
                             IF i > done THEN albums[i]
                             ELSE [albums[i] EXCEPT
                                     !.spotify_info =
                                        SearchSpotifyAlbum(
                                           CatalogAlbum(albums[i].key[1],
                                                        albums[i].key[2],
                                                        target_date),
                                           target_date, outcome[i][1]).info,
                                     !.artist_info =
                                        GetArtistInfo(albums[i].key[1],
                                                      outcome[i][2])]]
             /\ step' = IF raising = {} THEN "send" ELSE "wait"
    /\ UNCHANGED <<target_date, album_items, sources_data, errors>>
    /\ UNCHANGED Search
    /\ UNCHANGED Monitor

\* Lines 682-683: the email is generated from self.albums and handed to
\* send_email, which returns True or False; run_continuous goes on waiting.
SendEmail ==
    /\ step = "send"
    /\ step' = "wait"
    /\ UNCHANGED <<target_date, album_items, sources_data, albums, errors>>
    /\ UNCHANGED Search
    /\ UNCHANGED Monitor

EmailerInit ==
    /\ MonitorInit
    /\ tz = 0
    /\ step = "wait"
    /\ target_date = 0
    /\ album_items = <<>>
    /\ sources_data = <<>>
    /\ albums = <<>>
    /\ errors = <<>>
    /\ search_results = NoResults
    /\ queries = <<>>

EmailerNext ==
    \/ RunOnce
    \/ ScrapeSource
    \/ ScrapeError
    \/ CollectMentions
    \/ Deduplicate
    \/ EnrichAlbums
    \/ SendEmail

EmailerSpec == EmailerInit /\ [][EmailerNext]_vars

\* ------------------------------------------- a scrape function on its own
\* Any page of at most MaxTokens items has been fetched and parsed for any
\* one of the three sources.
ExtractInit ==
    /\ MonitorInit
    /\ tz = 0
    /\ step \in Sources
    /\ target_date \in TargetDays
    /\ album_items \in Pages(step, target_date, MaxTokens)
    /\ sources_data = <<>>
    /\ albums = <<>>
    /\ errors = <<>>
    /\ search_results = NoResults
    /\ queries = <<>>

\* The loop of the scrape function and its return or exit().
ExtractPage ==
    /\ step \in Sources
    /\ LET found_albums == Scrape(step, album_items, target_date)
       IN /\ errors' = IF found_albums = <<>>
                       THEN Append(errors, <<step, "No albums found">>)
                       ELSE errors
          /\ step' = IF Exits(found_albums) THEN "exit" ELSE "returned"
          /\ sources_data' = IF Exits(found_albums) THEN sources_data
                             ELSE Append(sources_data, <<step, found_albums>>)
    /\ UNCHANGED <<target_date, album_items, albums>>
    /\ UNCHANGED Search
    /\ UNCHANGED Monitor

ExtractNext == ExtractPage

ExtractSpec == ExtractInit /\ [][ExtractNext]_vars

\* -------------------------------------------- get_artist_releases on its own
\* The check of one artist, checked before at any time or never, is about to
\* list its releases; the catalog lists any albums in any order.
ListInit ==
    /\ now = MaxTime
    /\ tz = 0
    /\ catalog = [a \in ArtistIds |-> {}]
    /\ file = NoFile
    /\ \E last_check \in {None} \cup {IsoFormat(t) : t \in 0..MaxTime} :
          data = [NewData EXCEPT
                    !.artists = <<[id |-> "a1", name |-> "n1",
                                   last_check |-> last_check]>>]
    /\ pc = "check"
    /\ loop_num = 0
    /\ scan_idx = 0
    /\ current_time = MaxTime
    /\ sorted_artists = <<"a1">>
    /\ idx = 1
    /\ releases_to_send = NoBatch
    /\ all_artists = {}
    /\ releases = <<>>
    /\ lastFetch = "none"
    /\ artist_albums \in SeqsUpTo(AlbumIds, MaxListing)
    /\ lastStamp = MaxTime
    /\ sentCount = [k \in Keys |-> 0]
    /\ aborted = NoAbort
    /\ dropped = NoDrops
    /\ EmailerIdle

\* Line 228: the call of get_artist_releases.
ListReleases ==
    /\ pc = "check"
    /\ \E outcome \in Outcomes(artist_albums) :
          /\ releases' = GetArtistReleases(artist_albums,
                             SinceDate(data.artists[idx]), outcome)
          /\ lastFetch' = outcome.kind
    /\ pc' = "listed"
    /\ UNCHANGED <<Env, data, file, loop_num, scan_idx, current_time,
                   sorted_artists, idx, releases_to_send, all_artists,
                   artist_albums, History>>
    /\ UNCHANGED Emailer

ListNext == ListReleases

ListSpec == ListInit /\ [][ListNext]_vars

\* ------------------------------------------ deduplicate_albums on its own
\* The spellings self.albums can hold and the records they can carry.
Spellings == {<<"Drake", "Dogs">>, <<"drake ", "Dogs">>, <<"drake", "Dogs">>,
              <<"Adele", "30">>}
Records == {None, <<"uri1", 1>>, <<"uri2", 2>>}
AlbumEntries ==
    {[key |-> k, sources |-> <<"Genius">>, spotify_info |-> r,
      artist_info |-> None] : k \in Spellings, r \in Records}
\* self.albums is a dict: no key twice.
AlbumDicts(n) ==
    {dict \in SeqsUpTo(AlbumEntries, n) :
        \A i, j \in 1..Len(dict) : dict[i].key = dict[j].key => i = j}
KeysOf(dict) == [i \in 1..Len(dict) |-> dict[i].key]

\* self.albums holds any albums of at most MaxAlbums spellings, all mentioned
\* by one source, with or without a catalog record.
DedupInit ==
    /\ MonitorInit
    /\ tz = 0
    /\ step = "dedup"
    /\ target_date = 0
    /\ album_items = <<>>
    /\ albums \in AlbumDicts(MaxAlbums)
    /\ sources_data = <<<<"Genius", KeysOf(albums)>>>>
    /\ errors = <<>>
    /\ search_results = NoResults
    /\ queries = <<>>

\* deduplicate_albums is run on what it left.
DeduplicateAgain ==
    /\ step = "enrich"
    /\ albums' = DeduplicateAlbums(albums)
    /\ step' = "deduped"
    /\ UNCHANGED <<target_date, album_items, sources_data, errors>>
    /\ UNCHANGED Search
    /\ UNCHANGED Monitor

DedupNext ==
    \/ Deduplicate
    \/ DeduplicateAgain

DedupSpec == DedupInit /\ [][DedupNext]_vars

\* ---------------------------------------- search_spotify_album on its own
\* The albums an answer can hold on the eve of day d: two of an accepted date
\* with as many tracks, a smaller one, and a bigger one of another date.
Hits(d) == {Hit("uri1", 2, StrftimeD(d)), Hit("uri2", 2, StrftimeD(d - 1)),
            Hit("uri3", 3, StrftimeD(d + 3)), Hit("uri4", 1, StrftimeD(d))}

\* One album is to be looked up; the catalog would answer each of the two
\* searches with any list of at most MaxHits albums.
SearchInit ==
    /\ MonitorInit
    /\ tz = 0
    /\ step = "search"
    /\ target_date \in TargetDays
    /\ album_items = <<>>
    /\ sources_data = <<<<"Genius", <<<<"Drake", "Dogs">>>>>>>>
    /\ albums = <<[key |-> <<"Drake", "Dogs">>, sources |-> <<"Genius">>,
                   spotify_info |-> None, artist_info |-> None]>>
    /\ errors = <<>>
    /\ search_results \in
          {[precise |-> p, broad |-> b] :
              p \in SeqsUpTo(Hits(target_date), MaxHits),
              b \in SeqsUpTo(Hits(target_date), MaxHits)}
    /\ queries = <<>>

\* Line 668 for the one album.
SearchAlbum ==
    /\ step = "search"
    /\ \E outcome \in SearchOutcomes :
          LET found == SearchSpotifyAlbum(search_results, target_date, outcome)
          IN /\ albums' = [albums EXCEPT ![1].spotify_info = found.info]
             /\ queries' = found.queries
    /\ step' = "searched"
    /\ UNCHANGED <<target_date, album_items, sources_data, errors,
                   search_results>>
    /\ UNCHANGED Monitor

SearchNext == SearchAlbum

SearchSpec == SearchInit /\ [][SearchNext]_vars

\* ------------------------------------------------------------------ claims
CheckedArtist == sorted_artists[idx]
PassInfo(i) == ArtistInfo(data.artists, sorted_artists[i])
CheckStep == pc = "check" /\ pc' = "save"
ScanStep == pc = "scan" /\ scan_idx' = scan_idx + 1
RefreshStep == pc = "loop" /\ pc' = "begin"
SendStep == pc = "send" /\ pc' = "loop" /\ sentCount' # sentCount
PayloadEmpty == \A a \in ArtistIds : releases_to_send[a] = <<>>

\* C1: over refreshes, initial scans, completed and aborted passes, and
\* crash/restarts, every release key is handed to the mailer at most once in
\* total: in at most one payload, and at most once inside it.
C1_AtMostOnce == \A k \in Keys : sentCount[k] <= 1

\* A release already mailed is returned by the listing again in a later check.
C1_Witness ==
    /\ pc = "save"
    /\ \E i \in 1..Len(releases) :
          /\ sentCount[ReleaseKey(CheckedArtist, releases[i].id)] = 1
          /\ releases[i] \notin Range(releases_to_send[CheckedArtist])

\* The subject has a completed, persisted check, in the file and in memory.
HasPreviousCheck(a) ==
    /\ file.state = "ok"
    /\ a \in ArtistIdsOf(JsonLoad(file).artists)
    /\ ArtistInfo(JsonLoad(file).artists, a).last_check # None
    /\ a \in ArtistIdsOf(data.artists)
    /\ ArtistInfo(data.artists, a).last_check # None

\* get_artist_releases can still return the album for a subject whose last
\* check is the one stored in `artists`.
Eligible(artists, a, r) ==
    Strptime(Album(r).release_date) > FromIso(ArtistInfo(artists, a).last_check)

\* C2: a day-precision release that becomes visible in a tracked subject's
\* listing after the subject's previous check, with its key not in the
\* ledger, is eventually mailed.  last_check never decreases, so the release
\* can only ever be mailed if, when it becomes visible, the date filter of
\* get_artist_releases still lets it through: this is the finite form.
C2_NewReleaseNotified ==
    [][\A a \in ArtistIds : \A r \in Range(CatalogOrder(a)) :
          ( /\ r \notin catalog[a]
            /\ r \in catalog'[a]
            /\ Album(r).release_date_precision = "day"
            /\ HasPreviousCheck(a)
            /\ ~Known(data.known_releases, ReleaseKey(a, r))
            /\ ~Known(JsonLoad(file).known_releases, ReleaseKey(a, r)) )
          => \/ Eligible(data.artists, a, r)
             \/ Eligible(JsonLoad(file).artists, a, r)]_vars

\* Once the date filter rejects a visible album for a subject, in memory and
\* in the file, it rejects it for ever.
C2_RejectedForEver ==
    [][\A a \in ArtistIds : \A r \in catalog[a] :
          ( /\ HasPreviousCheck(a)
            /\ ~Eligible(data.artists, a, r)
            /\ ~Eligible(JsonLoad(file).artists, a, r)
            /\ file'.state = "ok" )
          => /\ HasPreviousCheck(a)'
             /\ ~Eligible(data'.artists, a, r)
             /\ ~Eligible(JsonLoad(file').artists, a, r)]_vars

\* C3: after each subject's check, in the poll pass and in the initial scan,
\* the state file equals the in-memory state before the next subject is
\* processed.
C3_FlushedAfterEachCheck ==
    ( \/ pc = "check" /\ idx > 1
      \/ pc = "scan" /\ scan_idx > 1 /\ scan_idx <= Len(data.artists) )
    => file.state = "ok" /\ JsonLoad(file) = data

\* C4: a poll pass checks each tracked subject exactly once (the pass order
\* is a permutation of the tracked subjects, the subjects before idx carry
\* the stamp of this pass, in memory and in the file, those after it do
\* not), and right after its check a subject's last_check is the start time
\* of the pass, whatever the listing returned.
C4_CheckedOnceWithPassStart ==
    InPass =>
      /\ Len(sorted_artists) = Len(data.artists)
      /\ Range(sorted_artists) = ArtistIdsOf(data.artists)
      /\ \A i \in 1..Len(sorted_artists) :
            LET stamped(artists) ==
                  ArtistInfo(artists, sorted_artists[i]).last_check
                    = IsoFormat(current_time)
            IN /\ i < idx => stamped(data.artists)
                             /\ stamped(JsonLoad(file).artists)
               /\ (i = idx /\ pc = "save") => stamped(data.artists)
               /\ (i > idx \/ (i = idx /\ pc = "check"))
                     => ~stamped(data.artists)
      /\ pc = "send" => idx = Len(sorted_artists) + 1

\* The second subject of a pass has just been checked, after the clock moved
\* on from the start of the pass, and its listing failed.
C4_Witness ==
    /\ pc = "save"
    /\ idx = 2
    /\ lastFetch = "error"
    /\ now > current_time
    /\ PassInfo(2).last_check = IsoFormat(current_time)

\* C5: when a subject whose last_check is None is checked, by the initial
\* scan or by a poll pass, and its listing succeeds, every day-precision
\* album of the listing is in the ledger afterwards and none of them is put
\* in the payload.
C5_FirstCheckRecordsSilently ==
    [][\A a \in ArtistIds :
          ( /\ \/ CheckStep /\ a = CheckedArtist
               \/ ScanStep /\ a = data.artists[scan_idx].id
            /\ lastFetch' = "ok"
            /\ ArtistInfo(data.artists, a).last_check = None )
          => /\ \A r \in catalog[a] :
                   Album(r).release_date_precision = "day"
                      => Known(data'.known_releases, ReleaseKey(a, r))
             /\ releases_to_send'[a] = <<>>]_vars

C7_RefreshInsertsAbsentOnly ==
    [][RefreshStep =>
         /\ Len(data'.artists) >= Len(data.artists)
         /\ \A i \in 1..Len(data.artists) : data'.artists[i] = data.artists[i]
         /\ \A j \in (Len(data.artists) + 1)..Len(data'.artists) :
               /\ data'.artists[j].id \notin ArtistIdsOf(data.artists)
               /\ data'.artists[j].last_check = None
               /\ <<data'.artists[j].id, data'.artists[j].name>>
                     \in all_artists'
         /\ \A d \in all_artists' : d[1] \in ArtistIdsOf(data'.artists)
         /\ data'.known_releases = data.known_releases
         /\ \A order \in Perms(all_artists') :
               AddArtists(data'.artists, order) = data'.artists]_vars

\* A refresh has just rediscovered, under another name, a subject that was
\* already tracked and checked, together with a subject that was absent.
C7_Witness ==
    /\ pc = "begin"
    /\ \E i \in 1..Len(data.artists) : \E d \in all_artists :
          /\ d[1] = data.artists[i].id
          /\ d[2] # data.artists[i].name
          /\ data.artists[i].last_check # None
    /\ \E i \in 1..Len(data.artists) :
          /\ data.artists[i].last_check = None
          /\ <<data.artists[i].id, data.artists[i].name>> \in all_artists
    /\ data.known_releases # <<>>

\* C8: the order computed at the start of a pass is a permutation of the
\* tracked subjects that lists every subject with last_check None before
\* every subject with a set last_check, lists the latter by ascending
\* last_check, and lists subjects with equal keys in the order of the
\* artists map, so that it is the one order the state determines.
C8_CheckOrder ==
    (pc = "check" /\ idx = 1) =>
      /\ Len(sorted_artists) = Len(data.artists)
      /\ Range(sorted_artists) = ArtistIdsOf(data.artists)
      /\ \A i, j \in 1..Len(sorted_artists) :
            i < j =>
              LET ci == PassInfo(i).last_check
                  cj == PassInfo(j).last_check
              IN /\ ~(ci # None /\ cj = None)
                 /\ (ci # None /\ cj # None) => FromIso(ci) <= FromIso(cj)
                 /\ ci = cj => IndexOf(data.artists, sorted_artists[i])
                                  < IndexOf(data.artists, sorted_artists[j])

\* A pass starts with a checked subject first in the artists map and a
\* never-checked one after it: the order puts the never-checked one first.
C8_Witness ==
    /\ pc = "check"
    /\ idx = 1
    /\ Len(sorted_artists) = 2
    /\ PassInfo(1).last_check = None
    /\ PassInfo(2).last_check # None
    /\ IndexOf(data.artists, sorted_artists[1]) = 2

C10_DispatchOncePerPass ==
    [][/\ pc' = "send" => /\ idx' = Len(sorted_artists') + 1
                          /\ ~PayloadEmpty'
                          /\ pc \in {"check", "send"}
       /\ (pc = "check" /\ pc' = "loop" /\ loop_num' # 0)
          => idx = Len(sorted_artists) + 1 /\ PayloadEmpty
       /\ sentCount' # sentCount => SendStep
       /\ SendStep => /\ \A k \in Keys :
                            sentCount'[k] = sentCount[k]
                               + Occurrences(releases_to_send, k)
                      /\ PayloadEmpty'
       /\ (pc = "send" /\ pc' # "send") => pc' \in {"loop", "start"}]_vars

\* The pass has checked two subjects and is about to hand a payload with
\* releases of both to the mailer.
C10_Witness ==
    /\ pc = "send"
    /\ Len(sorted_artists) = 2
    /\ \A a \in ArtistIds : releases_to_send[a] # <<>>
\* How a step can leave the pass other than through its own code: the
\* interrupt (the for loop of run_monitor starts again at 0) or a kill.
Interrupted == pc' = "loop" /\ loop_num' = 0
Killed == pc' \in {"start", "dead"}

\* C13: a catalog listing that fails for one artist does not end the pass.
\* The step that checks an artist, whatever the listing did, goes on to the
\* save of that artist with the pass, its order and the releases collected
\* for the other artists untouched, and the artist stamped; the save goes on
\* to the next artist in check order; and once every artist is checked, a
\* non-empty collection is handed whole to the mailer.  The only other ways
\* out of the pass are the interrupt and a kill.
C13_ListingFailureIsolated ==
    [][/\ (pc = "check" /\ idx <= Len(sorted_artists) /\ pc' # "check")
          => \/ Interrupted
             \/ Killed
             \/ /\ pc' = "save"
                /\ idx' = idx
                /\ sorted_artists' = sorted_artists
                /\ current_time' = current_time
                /\ \A b \in ArtistIds \ {CheckedArtist} :
                      releases_to_send'[b] = releases_to_send[b]
                /\ ArtistInfo(data'.artists, CheckedArtist).last_check
                      = IsoFormat(current_time)
       /\ (pc = "save" /\ pc' = "check")
          => /\ idx' = idx + 1
             /\ sorted_artists' = sorted_artists
             /\ releases_to_send' = releases_to_send
       /\ (pc = "check" /\ idx > Len(sorted_artists) /\ ~PayloadEmpty
             /\ pc' # "check")
          => \/ Interrupted
             \/ Killed
             \/ pc' = "send" /\ releases_to_send' = releases_to_send
       /\ SendStep
          => \A k \in Keys :
                sentCount'[k] = sentCount[k] + Occurrences(releases_to_send, k)
      ]_vars

\* The listing of the first artist of a two-artist pass has failed, the
\* pass is at that artist's save, and the second artist has a listing to read.
C13_Witness ==
    /\ pc = "save"
    /\ lastFetch = "error"
    /\ idx = 1
    /\ Len(sorted_artists) = 2
    /\ catalog[sorted_artists[2]] # {}

\* C14: when anything fails inside get_artist_releases, in a poll pass or in
\* the initial scan, the list it returns is empty.
C14_FailureYieldsEmptyList ==
    [][((CheckStep \/ ScanStep) /\ lastFetch' = "error") => releases' = <<>>]_vars

\* ------------------------------------------ claims about AlbumReleaseEmailer
\* C11: whenever run_once has reached send_email, self.albums, the collection
\* the email is generated from, holds at least one album, whatever the three
\* sources did (fetch error, no start marker, no mention, mentions).
C11_NeverEmptyNotification == step = "send" => albums # <<>>

\* run_once has reached send_email with two albums to announce.
C11_Witness == step = "send" /\ Len(albums) = 2

\* C12: a scrape function that records an error for its source (the fetch
\* failed, or it found no mention) does not end the run: the run goes on with
\* the next source, or with the merge after the last one.
C12_SourceFailureIsolated ==
    [][(step \in Sources /\ errors' # errors) => step' = NextStep(step)]_vars

\* What the code does instead: a run that has recorded an error has ended.
C12_FailedRunEnds == errors # <<>> => step = "exit"

\* The source a scrape function on its own was run for.
ScrapedSource ==
    IF step \in Sources THEN step
    ELSE IF sources_data # <<>> THEN sources_data[1][1] ELSE errors[1][1]
Scraped == step \in {"returned", "exit"}

\* Reading a page as a token stream: a token's date marker, the cells of its
\* entry, and whether the entry has the shape of its source.
MarkerOf(tok) == IF ScrapedSource = "Genius" THEN tok.date ELSE tok.th
CellsOf(tok) == IF ScrapedSource = "Genius" THEN tok.parts ELSE tok.td
WellFormed(tok) ==
    Len(CellsOf(tok)) = (IF ScrapedSource = "Genius" THEN 3 ELSE 2)
Malformed(tok) == CellsOf(tok) # <<>> /\ ~WellFormed(tok)
MentionOf(tok) == <<CellsOf(tok)[1], CellsOf(tok)[2]>>
StartIdx ==
    {i \in 1..Len(album_items) :
        MarkerOf(album_items[i]) = <<SiteDate(target_date)>>}
EndIdx ==
    {i \in 1..Len(album_items) :
        MarkerOf(album_items[i]) = <<SiteDate(target_date + WindowDays)>>}
HasStart == StartIdx # {}
FirstStart == CHOOSE i \in StartIdx : \A k \in StartIdx : i <= k
\* The window runs from the first start marker to the token before the next
\* end marker, or to the end of the stream.
WindowLast ==
    LET after == {j \in EndIdx : j > FirstStart}
    IN IF after = {} THEN Len(album_items)
       ELSE (CHOOSE j \in after : \A k \in after : j <= k) - 1
Window == SubSeq(album_items, FirstStart, WindowLast)
InWindow == SelectSeq(Window, WellFormed)
Expected == [i \in 1..Len(InWindow) |-> MentionOf(InWindow[i])]
BadInWindow == {i \in 1..Len(Window) : Malformed(Window[i])}
\* The rows of the Wikipedia page are those of the one table of the month.
OneTable ==
    ScrapedSource = "Wikipedia"
        => /\ album_items # <<>>
           /\ album_items[1] = Table(TargetMonth)
           /\ \A i \in 2..Len(album_items) : album_items[i].kind = "tr"
ReturnedExactly(found) ==
    step = "returned" /\ sources_data = <<<<ScrapedSource, found>>>>

\* A start marker, no end marker before it, and from it to the end marker
\* only well-formed entries, at least one.
CleanWindow ==
    /\ HasStart
    /\ OneTable
    /\ \A j \in EndIdx : j > FirstStart
    /\ BadInWindow = {}
    /\ Expected # <<>>

\* C15: for each of the three sources, a stream with a start marker followed
\* by one or more well-formed entries before the end marker yields exactly
\* those entries, in their order.
C15_ExactWindow == (Scraped /\ CleanWindow) => ReturnedExactly(Expected)

\* Where C15 does hold: everywhere but for Metacritic when the day of the end
\* marker has one digit.
C15_ExactUnlessPaddedEnd ==
    (Scraped /\ CleanWindow
        /\ ~(ScrapedSource = "Metacritic" /\ target_date + WindowDays < 10))
    => ReturnedExactly(Expected)

\* C16: a stream without a start marker yields no mention list: the scrape
\* function records the error of its source and returns nothing.
C16_NoStartNoMentions ==
    (Scraped /\ ~HasStart)
    => /\ step = "exit"
       /\ sources_data = <<>>
       /\ errors = <<<<ScrapedSource, "No albums found">>>>

\* A stream without a start marker, holding well-formed entries, was scraped.
C16_Witness ==
    /\ Scraped
    /\ ~HasStart
    /\ \E i \in 1..Len(album_items) : WellFormed(album_items[i])

\* C17: for each of the three sources, in a stream whose window (here running
\* to the end of the stream) holds exactly one malformed entry, that entry
\* becomes no mention and every well-formed entry of the window is returned.
C17_MalformedEntrySkipped ==
    (Scraped /\ HasStart /\ OneTable /\ EndIdx = {}
        /\ Cardinality(BadInWindow) = 1)
    => IF Expected = <<>> THEN step = "exit" ELSE ReturnedExactly(Expected)

\* Where C17 does hold: for Metacritic and Genius.
C17_SkippedOutsideWikipedia ==
    (Scraped /\ HasStart /\ EndIdx = {} /\ Cardinality(BadInWindow) = 1
        /\ ScrapedSource # "Wikipedia")
    => IF Expected = <<>> THEN step = "exit" ELSE ReturnedExactly(Expected)

\* The identity key of the spec: both names lower-cased and trimmed.
IdentityKey(key) == <<Strip(Lower(key[1])), Strip(Lower(key[2]))>>
RECURSIVE Flatten(_)
Flatten(data_list) ==
    IF data_list = <<>> THEN <<>>
    ELSE Head(data_list)[2] \o Flatten(Tail(data_list))
\* Every mention of the run, in the order collect_albums meets them.
Mentions == Flatten(sources_data)
SourcesOf(key) ==
    {sources_data[s][1] : s \in
        {t \in 1..Len(sources_data) :
            \E i \in 1..Len(sources_data[t][2]) :
                IdentityKey(sources_data[t][2][i]) = IdentityKey(key)}}
FirstMention(key) ==
    CHOOSE i \in 1..Len(Mentions) :
        Mentions[i] = key /\ \A k \in 1..(i - 1) : Mentions[k] # key
Deduplicated == step \in {"enrich", "send"}

\* C18: from deduplication to dispatch, enrichment included, no two albums of
\* self.albums have the same identity key.
C18_UniqueIdentityKeys ==
    Deduplicated
    => \A i, j \in 1..Len(albums) :
          i # j => IdentityKey(albums[i].key) # IdentityKey(albums[j].key)

\* Two spellings of one album and a second album were collected, and the run
\* has reached send_email.
C18_Witness ==
    /\ step = "send"
    /\ Len(albums) = 2
    /\ \E i, j \in 1..Len(Mentions) :
          /\ Mentions[i] # Mentions[j]
          /\ IdentityKey(Mentions[i]) = IdentityKey(Mentions[j])

\* C19: after aggregation the sources of a surviving album are, without
\* duplicates, all the sources that mentioned any spelling of its identity key.
C19_SourcesUnited ==
    Deduplicated
    => \A i \in 1..Len(albums) :
          /\ Range(albums[i].sources) = SourcesOf(albums[i].key)
          /\ Cardinality(Range(albums[i].sources)) = Len(albums[i].sources)

\* The record the catalog search settles on for a spelling.
Resolved(key) ==
    SearchSpotifyAlbum(CatalogAlbum(key[1], key[2], target_date),
                       target_date, "ok").info

\* C20: of the collected spellings of one identity key, the survivor is the
\* one the catalog resolves to the most tracks, and among equals the one met
\* first.
C20_MostTracksSurvives ==
    Deduplicated
    => \A i \in 1..Len(albums) : \A m \in 1..Len(Mentions) :
          IdentityKey(Mentions[m]) = IdentityKey(albums[i].key)
          => LET mine == Tracks(Resolved(albums[i].key))
                 other == Tracks(Resolved(Mentions[m]))
             IN /\ other <= mine
                /\ other = mine
                   => FirstMention(albums[i].key) <= FirstMention(Mentions[m])

\* C21: run on what it has left, deduplicate_albums removes no album and
\* changes none.
C21_DedupIdempotent ==
    [][(step = "enrich" /\ step' = "deduped") => albums' = albums]_vars

\* Three spellings were held, one of them fell to the first run, and the
\* second run has been made on the two that are left, one with a record.
C21_Witness ==
    /\ step = "deduped"
    /\ Len(Mentions) = 3
    /\ Len(albums) = 2
    /\ \E i \in 1..Len(albums) : albums[i].spotify_info # None

\* The search has been made; what it returned, the answer it was taken from,
\* and the dates the spec accepts.
Searched == step = "searched"
Found == albums[1].spotify_info
BroadIssued == \E i \in 1..Len(queries) : queries[i].q = "broad"
AnswerUsed ==
    IF BroadIssued THEN search_results.broad ELSE search_results.precise
OnAcceptedDay(hit) == hit.release_date.day \in {target_date, target_date - 1}

\* C22: a record returned by search_spotify_album is an album of the answer
\* to the last search made, released on the target day or the day before,
\* and the first of those with the most tracks among the albums of that
\* answer released on those two days.
C22_BestAcceptedReturned ==
    (Searched /\ Found # None)
    => \E i \in 1..Len(AnswerUsed) :
          /\ Found = <<AnswerUsed[i].uri, AnswerUsed[i].total_tracks>>
          /\ OnAcceptedDay(AnswerUsed[i])
          /\ \A j \in 1..Len(AnswerUsed) :
                OnAcceptedDay(AnswerUsed[j])
                => /\ AnswerUsed[j].total_tracks <= AnswerUsed[i].total_tracks
                   /\ AnswerUsed[j].total_tracks = AnswerUsed[i].total_tracks
                      => i <= j

\* The broad answer held a bigger album of another date and then two albums
\* of accepted dates with as many tracks; the first of the two was returned.
C22_Witness ==
    /\ Searched
    /\ BroadIssued
    /\ search_results.broad =
          <<Hit("uri3", 3, StrftimeD(target_date + 3)),
            Hit("uri2", 2, StrftimeD(target_date - 1)),
            Hit("uri1", 2, StrftimeD(target_date))>>
    /\ Found = <<"uri2", 2>>

\* The precise search answered (it did not raise), and with no album.
PreciseAnswered == queries # <<>> /\ queries[1] = Query("precise", FALSE)
PreciseEmpty == PreciseAnswered /\ search_results.precise = <<>>

\* C28: the broad search is made exactly when the precise search answered
\* with no album; when the precise answer holds albums, none of them of an
\* accepted date, nothing is returned and the broad search is not made.
C28_BroadOnlyAfterEmptyPrecise ==
    Searched
    => /\ BroadIssued <=> PreciseEmpty
       /\ (/\ PreciseAnswered
           /\ search_results.precise # <<>>
           /\ \A i \in 1..Len(search_results.precise) :
                 ~OnAcceptedDay(search_results.precise[i]))
          => Found = None /\ ~BroadIssued

\* The precise answer held one album of another date, the broad search would
\* have found an album of the target date, and nothing was returned.
C28_Witness ==
    /\ Searched
    /\ PreciseAnswered
    /\ search_results.precise = <<Hit("uri3", 3, StrftimeD(target_date + 3))>>
    /\ search_results.broad = <<Hit("uri1", 2, StrftimeD(target_date))>>
    /\ queries = <<Query("precise", FALSE)>>
    /\ Found = None

\* C23: enrichment hands every album that deduplication left to the email, in
\* the same order, each with an artist record (the default one when the
\* artist lookup raised) and with the catalog record of its search or, when
\* the search found nothing or raised, with none.
C23_EveryAlbumInPayload ==
    [][step = "enrich"
       => /\ step' = "send"
          /\ KeysOf(albums') = KeysOf(albums)
          /\ \A i \in 1..Len(albums') :
                /\ albums'[i].artist_info # None
                /\ albums'[i].spotify_info \in {None, Resolved(albums'[i].key)}
                /\ Resolved(albums'[i].key) = None
                   => albums'[i].spotify_info = None]_vars

\* Of two albums in the email, the first has a record in the catalog but its
\* search raised, and the second, which has none, was enriched after it.
C23_Witness ==
    /\ step = "send"
    /\ Len(albums) = 2
    /\ Resolved(albums[1].key) # None
    /\ albums[1].spotify_info = None
    /\ Resolved(albums[2].key) = None
    /\ albums[2].spotify_info = None
    /\ albums[2].artist_info = GetArtistInfo(albums[2].key[1], "ok")

\* The albums of a listing the spec wants returned: those dated to the day,
\* on a day after the day of the last check if there was one.
RECURSIVE DayRecordsAfter(_, _)
DayRecordsAfter(listing, last_check) ==
    IF listing = <<>> THEN <<>>
    ELSE LET album == Album(Head(listing))
             rest == DayRecordsAfter(Tail(listing), last_check)
         IN IF /\ album.release_date_precision = "day"
               /\ \/ last_check = None
                  \/ album.release_date > FromIso(last_check) \div TicksPerDay
            THEN <<[id |-> album.id, name |-> album.name,
                    release_date |-> album.release_date]>> \o rest
            ELSE rest

\* C24: when no call of the catalog fails, get_artist_releases returns, in
\* the order of the listing, exactly its albums of day precision released
\* after since_date, and all its albums of day precision when there is no
\* since_date.
C24_ListedSince ==
    (pc = "listed" /\ lastFetch = "ok")
    => releases = DayRecordsAfter(artist_albums, data.artists[idx].last_check)

\* The artist was last checked on day 1; the listing held an album of day 2,
\* one of year precision and one of day 1, and the first alone was returned.
C24_Witness ==
    /\ pc = "listed"
    /\ lastFetch = "ok"
    /\ data.artists[idx].last_check = IsoFormat(Strptime(1))
    /\ artist_albums = <<"r2", "r3", "r1">>
    /\ Len(releases) = 1
    /\ releases[1].id = "r2"

\* The artist was checked before every release; both albums of day precision
\* were returned in the order of the listing.
C24_Ordered ==
    (/\ pc = "listed"
     /\ lastFetch = "ok"
     /\ artist_albums = <<"r2", "r3", "r1">>
     /\ data.artists[idx].last_check \in {None, IsoFormat(0)})
    => (Len(releases) = 2 /\ releases[1].id = "r2" /\ releases[2].id = "r1")

\* C25: a step that leaves the save of a checked artist without having
\* written the state (and is neither the interrupt nor a kill) ends the pass:
\* control is back in the loop of run_monitor at the next loop_num, no artist
\* of the pass is left to check, what was collected for the email is dropped
\* and nothing is handed to the mailer.
C25_FlushFailureAbortsPass ==
    [][(/\ pc = "save"
        /\ pc' # "save"
        /\ ~Interrupted
        /\ ~Killed
        /\ ~(file' = JsonDump(data) /\ pc' = "check"))
       => /\ pc' = "loop"
          /\ loop_num' = NextLoop(loop_num)
          /\ idx' = 0
          /\ sorted_artists' = <<>>
          /\ releases_to_send' = NoBatch
          /\ sentCount' = sentCount
          /\ data' = data]_vars

\* The save of the first of two artists failed in a pass that had collected
\* a release for the email: the pass was left, the second artist unchecked,
\* the file behind the memory and the release never handed to the mailer.
C25_Witness ==
    /\ pc = "loop"
    /\ loop_num # 0
    /\ Len(data.artists) = 2
    /\ \E i, j \in 1..2 :
          /\ data.artists[i].last_check = IsoFormat(lastStamp)
          /\ data.artists[j].last_check # None
          /\ FromIso(data.artists[j].last_check) < lastStamp
    /\ file.state = "ok"
    /\ \E k \in DOMAIN data.known_releases :
          /\ ~Known(JsonLoad(file).known_releases, k)
          /\ sentCount[k] = 0

\* Every last_check the running pass has assigned in memory is in the file.
PassStampsFlushed ==
    \A i \in 1..Len(data.artists) :
       data.artists[i].last_check = CheckStamp(current_time, now)
       => /\ file.state = "ok"
          /\ i <= Len(JsonLoad(file).artists)
          /\ JsonLoad(file).artists[i].last_check = data.artists[i].last_check

\* C26: wherever in a pass the interrupt arrives, every last_check the pass
\* has assigned in memory is in the state file.
C26_InterruptFindsStateFlushed ==
    [][(InPass /\ Interrupted) => PassStampsFlushed]_vars

\* Between two checks and before the dispatch it is so: an interrupt that
\* arrives while the pass is not between the assignment of line 251 and the
\* save of line 254 finds the stamps of the pass in the file.
C26_FlushedBetweenChecks ==
    [][(pc \in {"check", "send"} /\ Interrupted) => PassStampsFlushed]_vars

\* C29: a step that takes the process out of a pass without going on to the
\* next loop_num, and is not a kill, is the interrupt, and it ends
\* run_monitor: nothing is started after it.
C29_InterruptStopsMonitor ==
    [][(/\ InPass
        /\ pc' \notin {"check", "save", "send"}
        /\ ~Killed
        /\ ~(pc' = "loop" /\ loop_num' = NextLoop(loop_num)))
       => pc' = "exited"]_vars

\* The keys of the releases collected for the email of the running pass.
PayloadKeys ==
    {k \in Keys : \E i \in 1..Len(releases_to_send[k[1]]) :
                     ReleaseKey(k[1], releases_to_send[k[1]][i].id) = k}

\* C30: when the pass is about to hand its payload to the mailer, the state
\* file holds the ledger entry of every release of the payload.
C30_RecordedBeforeNotified ==
    pc = "send"
    => /\ file.state = "ok"
       /\ \A k \in PayloadKeys :
             /\ Known(JsonLoad(file).known_releases, k)
             /\ JsonLoad(file).known_releases[k] = data.known_releases[k]

\* The pass is about to send releases of two artists, and the file holds the
\* entries of both.
C30_Witness ==
    /\ pc = "send"
    /\ Cardinality(PayloadKeys) = 2
    /\ Cardinality({k[1] : k \in PayloadKeys}) = 2
    /\ \A k \in PayloadKeys : Known(JsonLoad(file).known_releases, k)

\* The stream up to the first end marker, and the list the scrape function
\* returned (none when it called exit()).
FirstEnd == CHOOSE i \in EndIdx : \A k \in EndIdx : i <= k
BeforeEnd == SubSeq(album_items, 1, FirstEnd - 1)
FoundList == IF step = "returned" THEN sources_data[1][2] ELSE <<>>

\* C27: for each of the three sources and every target date, a stream with
\* an end marker yields what the stream cut before its first end marker
\* yields: no token after the marker adds a mention.
C27_EndMarkerStopsScan ==
    (Scraped /\ OneTable /\ EndIdx # {})
    => FoundList = Scrape(ScrapedSource, BeforeEnd, target_date)

\* Where C27 does hold: everywhere but for Metacritic when the day of the end
\* marker has one digit.
C27_StopsUnlessPaddedEnd ==
    (Scraped /\ OneTable /\ EndIdx # {}
        /\ ~(ScrapedSource = "Metacritic" /\ target_date + WindowDays < 10))
    => FoundList = Scrape(ScrapedSource, BeforeEnd, target_date)

\* C31: no release handed to the mailer was handed to it before, by a pass
\* whose dispatch may have failed, or was collected and recorded by an
\* earlier pass that was left before its dispatch, whether the process has
\* been started again since or not.
C31_NeverNotifiedLater ==
    [][SendStep => \A k \in PayloadKeys :
           sentCount[k] = 0 /\ k \notin dropped.keys]_vars

\* What does hold: a release that was handed to the mailer is in no later
\* payload, and a release of a pass left before its dispatch is collected
\* again only if its ledger entry is not in memory, that is, after the
\* process was started again from a file the entry had not reached.
C31_OnlyAfterLosingTheEntry ==
    [][/\ SendStep => \A k \in PayloadKeys : sentCount[k] = 0
       /\ \A k \in dropped.keys :
             (/\ k \in BatchKeys(releases_to_send')
              /\ k \notin BatchKeys(releases_to_send))
             => ~Known(data.known_releases, k)
       /\ \A k \in dropped.keys :
             (/\ Known(data.known_releases, k)
              /\ file.state = "ok"
              /\ Known(JsonLoad(file).known_releases, k)
              /\ pc' \notin {"dead", "exited"})
             => Known(data'.known_releases, k)]_vars

=============================================================================
